---- MODULE Spec2Model ----
(***************************************************************************)
(* Model of frontend/src/components/DashboardHeader.jsx.                   *)
(*                                                                         *)
(* DashboardHeader is a function component without parameters.  A render   *)
(* calls the navigation hook useRouter() and returns a fixed element tree: *)
(* a logo, a title and a button whose onClick is the arrow function        *)
(* () => router.refresh().  The state below is what surrounds the          *)
(* component: what the hook yields in the embedding host, the tree that is *)
(* currently mounted, the log of invocations of router.refresh, the faults *)
(* that left the component, and the reloads the host still has in flight.  *)
(***************************************************************************)
EXTENDS Integers, Sequences, FiniteSets, TLC

VARIABLES hook, tree, propsLog, clicks, calls, hostFaults, inflight

vars == <<hook, tree, propsLog, clicks, calls, hostFaults, inflight>>

(* Bounds of the exploration. *)
MaxClicks == 3
MaxRenders == 3

(* JavaScript's undefined. *)
Undefined == "undefined"

(* ---------------------------------------------------------------------- *)
(* Literals of the source.                                                 *)
(* ---------------------------------------------------------------------- *)
LogoSrc == "/logo.png"
LogoHeight == 80
LogoWidth == 80
LogoAlt == "Logo"
TitleText == "Aerosports TV control"
ButtonLabel == "Refresh All"
MontserratClassName == "montserrat.className"

(* What useRouter() can do in a host: return the mounted router, return    *)
(* undefined (a stubbed hook), or throw because no router is mounted.      *)
HookOutcomes == {"router", "undefined", "throws"}

(* Props a caller may pass to <DashboardHeader .../>.  given = FALSE is    *)
(* the element without any configuration.                                  *)
NoConfig == [given |-> FALSE, title |-> Undefined, logoSource |-> Undefined]

Configs ==
  { NoConfig,
    [given |-> TRUE, title |-> "", logoSource |-> Undefined],
    [given |-> TRUE, title |-> Undefined, logoSource |-> Undefined],
    [given |-> TRUE, title |-> "Arena 2 Control", logoSource |-> "/arena2-logo.png"] }

(* The value of `const router = useRouter()` when the hook returns. *)
useRouter == IF hook = "router" THEN "router" ELSE Undefined

(* What one invocation of router.refresh() may do: return, or raise. *)
RefreshOutcomes == {"returns", "throws"}

(* ---------------------------------------------------------------------- *)
(* The component function: the element tree one render returns.  The       *)
(* function declares no parameter, so props are received and ignored.      *)
(* onClick records the router the arrow function closes over.              *)
(* ---------------------------------------------------------------------- *)
DashboardHeader_Loading(props) ==
  [ className |-> <<"flex items-center justify-between pb-4", MontserratClassName>>,
    image |-> [src |-> LogoSrc, height |-> LogoHeight, width |-> LogoWidth, alt |-> LogoAlt],
    title |-> TitleText,
    button |-> [icon |-> "RefreshCw", label |-> ButtonLabel,
                disabled |-> (inflight > 0), onClick |-> useRouter] ]

DashboardHeader_Spinner(props) ==
  [ className |-> <<"flex items-center justify-between pb-4", MontserratClassName>>,
    image |-> [src |-> LogoSrc, height |-> LogoHeight, width |-> LogoWidth, alt |-> LogoAlt],
    title |-> TitleText,
    button |-> [icon |-> IF clicks > 0 THEN "Spinner" ELSE "RefreshCw", label |-> ButtonLabel,
                disabled |-> FALSE, onClick |-> useRouter] ]

DashboardHeader_TitleProp(props) ==
  [ className |-> <<"flex items-center justify-between pb-4", MontserratClassName>>,
    image |-> [src |-> LogoSrc, height |-> LogoHeight, width |-> LogoWidth, alt |-> LogoAlt],
    title |-> props.title,
    button |-> [icon |-> "RefreshCw", label |-> ButtonLabel,
                disabled |-> FALSE, onClick |-> useRouter] ]

DashboardHeader_Configurable(props) ==
  [ className |-> <<"flex items-center justify-between pb-4", MontserratClassName>>,
    image |-> [src |-> IF props.given /\ props.logoSource # Undefined
                       THEN props.logoSource ELSE LogoSrc,
               height |-> LogoHeight, width |-> LogoWidth, alt |-> LogoAlt],
    title |-> IF props.given /\ props.title \notin {"", Undefined}
              THEN props.title ELSE TitleText,
    button |-> [icon |-> "RefreshCw", label |-> ButtonLabel,
                disabled |-> FALSE, onClick |-> useRouter] ]

DashboardHeader(props) ==
  [ className |-> <<"flex items-center justify-between pb-4", MontserratClassName>>,
    image |-> [src |-> LogoSrc, height |-> LogoHeight, width |-> LogoWidth, alt |-> LogoAlt],
    title |-> TitleText,
    button |-> [icon |-> "RefreshCw", label |-> ButtonLabel,
                disabled |-> FALSE, onClick |-> useRouter] ]

(* ---------------------------------------------------------------------- *)
(* The click handler () => router.refresh(), run for activation number     *)
(* `click` with the router the closure captured.  It yields the            *)
(* invocations of refresh it made and the faults that escaped it.  The     *)
(* arrow function takes no parameter, so the click event is not passed on; *)
(* there is no try/catch, so a fault of refresh escapes; reading .refresh  *)
(* of undefined raises a TypeError before anything is invoked.             *)
(* ---------------------------------------------------------------------- *)
OnClick_ForwardsEvent(router, click, outcome) ==
  IF router = Undefined
    THEN [invoked |-> <<>>, faults |-> <<"TypeError">>]
    ELSE [invoked |-> <<[args |-> <<"event">>, click |-> click, outcome |-> outcome]>>,
          faults |-> IF outcome = "throws" THEN <<"RefreshFault">> ELSE <<>>]

OnClick_Debounced(router, click, outcome) ==
  IF router = Undefined
    THEN [invoked |-> <<>>, faults |-> <<"TypeError">>]
    ELSE IF inflight > 0
      THEN [invoked |-> <<>>, faults |-> <<>>]
      ELSE [invoked |-> <<[args |-> <<>>, click |-> click, outcome |-> outcome]>>,
            faults |-> IF outcome = "throws" THEN <<"RefreshFault">> ELSE <<>>]

OnClick_Catches(router, click, outcome) ==
  IF router = Undefined
    THEN [invoked |-> <<>>, faults |-> <<"TypeError">>]
    ELSE [invoked |-> <<[args |-> <<>>, click |-> click, outcome |-> outcome]>>,
          faults |-> <<>>]

OnClick(router, click, outcome) ==
  IF router = Undefined
    THEN [invoked |-> <<>>, faults |-> <<"TypeError">>]
    ELSE [invoked |-> <<[args |-> <<>>, click |-> click, outcome |-> outcome]>>,
          faults |-> IF outcome = "throws" THEN <<"RefreshFault">> ELSE <<>>]

(* Reloads started by a list of invocations: those that returned. *)
Started(invoked) ==
  Cardinality({i \in DOMAIN invoked : invoked[i].outcome = "returns"})

(* ---------------------------------------------------------------------- *)
(* State machine.                                                          *)
(* ---------------------------------------------------------------------- *)
Init ==
  /\ hook \in HookOutcomes
  /\ tree = <<>>
  /\ propsLog = <<>>
  /\ clicks = 0
  /\ calls = <<>>
  /\ hostFaults = <<>>
  /\ inflight = 0

(* The host renders <DashboardHeader {...props}/>: initial render or       *)
(* re-render.  A hook that throws aborts the render and the host unmounts  *)
(* the subtree.                                                            *)
Render_Invoking(props) ==
  /\ Len(propsLog) < MaxRenders
  /\ propsLog' = Append(propsLog, props)
  /\ IF hook = "throws"
       THEN /\ tree' = <<>>
            /\ hostFaults' = Append(hostFaults, "RouterNotMounted")
            /\ UNCHANGED <<calls, inflight>>
       ELSE /\ tree' = <<DashboardHeader(props)>>
            /\ IF useRouter = Undefined
                 THEN /\ hostFaults' = Append(hostFaults, "TypeError")
                      /\ UNCHANGED <<calls, inflight>>
                 ELSE /\ calls' = Append(calls, [args |-> <<>>, click |-> 0, outcome |-> "returns"])
                      /\ inflight' = inflight + 1
                      /\ UNCHANGED hostFaults
  /\ UNCHANGED <<hook, clicks>>

Render(props) ==
  /\ Len(propsLog) < MaxRenders
  /\ propsLog' = Append(propsLog, props)
  /\ IF hook = "throws"
       THEN /\ tree' = <<>>
            /\ hostFaults' = Append(hostFaults, "RouterNotMounted")
       ELSE /\ tree' = <<DashboardHeader(props)>>
            /\ UNCHANGED hostFaults
  /\ UNCHANGED <<hook, clicks, calls, inflight>>

(* The user activates the mounted button: the handler runs to completion   *)
(* within the event.                                                       *)
Activate_SetsLoading ==
  /\ Len(tree) = 1
  /\ ~tree[1].button.disabled
  /\ clicks < MaxClicks
  /\ \E outcome \in RefreshOutcomes :
       LET r == OnClick(tree[1].button.onClick, clicks + 1, outcome) IN
         /\ calls' = calls \o r.invoked
         /\ hostFaults' = hostFaults \o r.faults
         /\ inflight' = inflight + Started(r.invoked)
  /\ clicks' = clicks + 1
  /\ tree' = <<[tree[1] EXCEPT !.button.label = "Refreshing..."]>>
  /\ UNCHANGED <<hook, propsLog>>

Activate ==
  /\ Len(tree) = 1
  /\ ~tree[1].button.disabled
  /\ clicks < MaxClicks
  /\ \E outcome \in RefreshOutcomes :
       LET r == OnClick(tree[1].button.onClick, clicks + 1, outcome) IN
         /\ calls' = calls \o r.invoked
         /\ hostFaults' = hostFaults \o r.faults
         /\ inflight' = inflight + Started(r.invoked)
  /\ clicks' = clicks + 1
  /\ UNCHANGED <<hook, tree, propsLog>>

(* The host finishes one of the reloads that router.refresh() started. *)
ReloadDone ==
  /\ inflight > 0
  /\ inflight' = inflight - 1
  /\ UNCHANGED <<hook, tree, propsLog, clicks, calls, hostFaults>>

Next ==
  \/ \E props \in Configs : Render(props)
  \/ Activate
  \/ ReloadDone

Spec == Init /\ [][Next]_vars

(* ---------------------------------------------------------------------- *)
(* Vocabulary of the properties.                                           *)
(* ---------------------------------------------------------------------- *)
CapabilitySupplied == hook = "router"

Mounted == Len(tree) = 1

ActivationStep == clicks' = clicks + 1

RenderStep == Len(propsLog') = Len(propsLog) + 1

LastProps == propsLog[Len(propsLog)]

Range(s) == {s[i] : i \in DOMAIN s}

NewCalls == {i \in DOMAIN calls' : i > Len(calls)}

(* C1: one activation of the refresh control invokes the refresh           *)
(* capability exactly once, within the activation step itself, and with no *)
(* arguments (the click event is not forwarded).                           *)
C1_OneActivationOneCall ==
  [][(ActivationStep /\ CapabilitySupplied) =>
       /\ Len(calls') = Len(calls) + 1
       /\ SubSeq(calls', 1, Len(calls)) = calls
       /\ calls'[Len(calls')].args = <<>>]_vars

C1_Witness ==
  /\ CapabilitySupplied
  /\ clicks = 1
  /\ Len(calls) = 1
  /\ calls[1].args = <<>>

(* C2: N activations in sequence invoke the capability exactly N times,    *)
(* the i-th invocation caused by the i-th activation; none is merged,      *)
(* dropped or deduplicated.                                                *)
C2_NActivationsNCallsInOrder ==
  CapabilitySupplied =>
    /\ Len(calls) = clicks
    /\ \A i \in DOMAIN calls : calls[i].click = i

C2_Witness ==
  /\ CapabilitySupplied
  /\ clicks >= 3
  /\ Len(calls) = clicks
  /\ calls[3].click = 3

(* C3: the refresh control of a mounted header is enabled in every         *)
(* reachable state; an activation that arrives while an earlier reload is  *)
(* still in flight in the host is accepted and invokes the capability on   *)
(* its own.                                                                *)
C3_AlwaysEnabled ==
  /\ [](Mounted => ~tree[1].button.disabled)
  /\ []((Mounted /\ clicks < MaxClicks) => ENABLED Activate)
  /\ [][(ActivationStep /\ CapabilitySupplied /\ inflight > 0) =>
          /\ Cardinality(NewCalls) = 1
          /\ inflight' >= inflight]_vars

C3_Witness ==
  /\ CapabilitySupplied
  /\ inflight >= 2
  /\ Len(calls) >= 2
  /\ ~tree[1].button.disabled

(* C4: rendering has no side effects: a render, initial or repeated, never *)
(* invokes the refresh capability, so the number of invocations always     *)
(* equals the number of activations.                                       *)
C4_RenderInvokesNothing ==
  /\ [][RenderStep => (calls' = calls /\ inflight' = inflight /\ clicks' = clicks)]_vars
  /\ [](CapabilitySupplied => Len(calls) = clicks)

C4_Witness ==
  /\ CapabilitySupplied
  /\ Len(propsLog) >= 2
  /\ clicks = 1
  /\ Len(calls) = 1
  /\ Mounted

(* C5: a fault raised by the refresh capability is neither caught, retried *)
(* nor suppressed: the capability was invoked once for that activation and *)
(* the fault reaches the host; afterwards the header is still mounted,     *)
(* re-renders to the same tree and accepts further activations.            *)
C5_FaultPropagates ==
  /\ [][(ActivationStep /\ \E i \in NewCalls : calls'[i].outcome = "throws") =>
          /\ Cardinality(NewCalls) = 1
          /\ hostFaults' = Append(hostFaults, "RefreshFault")
          /\ tree' = tree]_vars
  /\ []("RefreshFault" \in Range(hostFaults) =>
          /\ Mounted
          /\ tree[1] = DashboardHeader(LastProps)
          /\ ~tree[1].button.disabled
          /\ (Len(propsLog) < MaxRenders => ENABLED Render(LastProps))
          /\ (clicks < MaxClicks => ENABLED Activate))

C5_Witness ==
  /\ Len(calls) >= 2
  /\ calls[1].outcome = "throws"
  /\ hostFaults[1] = "RefreshFault"
  /\ Len(propsLog) >= 2
  /\ Mounted

(* C6: with the refresh capability absent the component follows one        *)
(* policy: either every activation is a safe no-op (no fault at all), or   *)
(* the render is rejected with a configuration error (never mounted); it   *)
(* never raises an opaque fault such as a TypeError at activation time.    *)
C6_AbsentCapabilityPolicy ==
  ~CapabilitySupplied =>
    \/ hostFaults = <<>>
    \/ (~Mounted /\ Range(hostFaults) = {"RouterNotMounted"})

(* C7: when the configuration is omitted, or its title is empty or         *)
(* undefined, the render succeeds and the rendered title is the default    *)
(* "Aerosports TV control".                                                *)
FallsBack(props) == ~props.given \/ props.title \in {"", Undefined}

C7_DefaultTitle ==
  [][(RenderStep /\ FallsBack(LastProps') /\ hook # "throws") =>
       /\ Mounted'
       /\ tree'[1].title = "Aerosports TV control"
       /\ hostFaults' = hostFaults]_vars

C7_Witness ==
  /\ Mounted
  /\ LastProps.given
  /\ LastProps.title = ""
  /\ tree[1].title = "Aerosports TV control"

(* C8 as stated: a supplied non-empty title is the rendered title. *)
Custom(props) == props.given /\ props.title \notin {"", Undefined}

C9_RenderIdempotent ==
  /\ [][(RenderStep /\ Mounted /\ LastProps' = LastProps) => tree' = tree]_vars
  /\ []((Mounted /\ ~LastProps.given) =>
          /\ tree[1].image.height = 80
          /\ tree[1].image.width = 80
          /\ tree[1].title = "Aerosports TV control")

C9_Witness ==
  /\ Mounted
  /\ Len(propsLog) >= 2
  /\ propsLog[Len(propsLog) - 1] = LastProps
  /\ ~LastProps.given
  /\ clicks >= 1
  /\ tree[1].image.height = 80

(* C10: the component is stateless: an activation leaves the title, the    *)
(* logo, its dimensions and the enabledness of the control as they were,   *)
(* and its only effect is the single invocation of the capability; the     *)
(* mounted tree is a function of the last render alone.                    *)
C10_ActivationFrame ==
  /\ [][ActivationStep =>
          /\ tree' = tree
          /\ propsLog' = propsLog
          /\ hook' = hook
          /\ (CapabilitySupplied => Cardinality(NewCalls) = 1)]_vars
  /\ [](Mounted => tree[1] = DashboardHeader(LastProps))

C10_Witness ==
  /\ Mounted
  /\ CapabilitySupplied
  /\ clicks = 2
  /\ Len(calls) = 2
  /\ tree[1].title = TitleText
  /\ ~tree[1].button.disabled

====
